---- MODULE Spec2Model ----
(***************************************************************************)
(* Model of the request queue coordinator of openveo-rest-nodejs-client:   *)
(* lib/RestClient.js (queue, authentication, dispatch), lib/Request.js     *)
(* (execute / abort of one HTTP call) and lib/OpenVeoClient.js (bearer     *)
(* header, authenticate request).                                          *)
(*                                                                         *)
(* One step of the model is one run-to-completion turn of the Node.js      *)
(* event loop: a callback of the program together with every promise       *)
(* reaction (microtask) it queues.  The HTTP layer (http.ClientRequest) is  *)
(* the environment: it delivers 'end', 'error', 'timeout' and 'abort'      *)
(* events.  The 'abort' event of a call is emitted on the tick that        *)
(* follows the first abort() of that call, before any other event, and at  *)
(* most once; when it is not emitted the abortTimeout timer of abort()     *)
(* fires later.                                                            *)
(***************************************************************************)
EXTENDS Integers, Sequences, FiniteSets, TLC

\* Number of verb calls (get/post/put/patch/delete) made by the caller.
NumReqs == 2

\* Number of distinct access tokens the token endpoint can hand out.
NumTokens == 2

\* Access tokens: n stands for the n-th token string, 0 for null / absent.
Tokens == 1..NumTokens

\* RestClient.maxAuthenticationAttempts (default value).
MaxAuthenticationAttempts == 1

\* Identity of the client's authenticateRequest among the Request objects.
AUTH == 0

Reqs == 1..NumReqs

Objs == Reqs \cup {AUTH}

\* The two error descriptions the coordinator reads as "token expired".
TokenNotFound == "Token not found or expired"

TokenExpired == "Token already expired"

\* Parsed bodies of downstream responses, with the injected httpCode.
Result(error, description, httpCode) ==
  [error |-> error, error_description |-> description, httpCode |-> httpCode]

Results ==
  { Result("", "", 200),              \* success
    Result("E", "other", 200),        \* error field, code below 400
    Result("", "", 500),              \* code of 400 or more, no error field
    Result("E", TokenNotFound, 401),  \* expiry reported with an error field
    Result("", TokenExpired, 500),    \* expiry reported by the code alone
    Result("", TokenExpired, 200) }   \* the description alone: not an error

\* Parsed bodies of token endpoint responses (access_token 0: no such field).
AuthResult(error, description, token) ==
  [error |-> error, error_description |-> description, access_token |-> token]

AuthResults ==
  { AuthResult("", "", t) : t \in Tokens }      \* {access_token}
  \cup { AuthResult("E", "bad client", 0),       \* {error, error_description}
         AuthResult("E", "bad client", 1),       \* an error field beside a token
         AuthResult("", "", 0) }                 \* neither error nor token

VARIABLES
  accessToken,     \* RestClient.accessToken: 0 is null, else a member of Tokens
  queuedRequests,  \* RestClient.queuedRequests: a Set, kept in insertion order
  isRunning,       \* Request.isRunning, per Request object
  attempts,        \* Request.attempts
  request,         \* Request.request: state of the HTTP call it holds
  abortState,      \* 'abort' event of that HTTP call: "no" abort yet, "emitted", "never"
  promise,         \* promise returned by the execute() that issued that HTTP call
  preWait,         \* number of execute() calls waiting for abort() before issuing
  timeoutAbort,    \* abort() made by the execution timeout callback
  headers,         \* Request.options.headers.Authorization: -1 absent, n is 'Bearer <n>'
  infinite,        \* Request.executionTimeout === Infinity
  outcomes,        \* invocations of the caller's resolve / reject callbacks, in order
  created,         \* number of verb calls made so far
  execs,           \* number of execute() calls per Request object
  issued,          \* number of HTTP calls issued per Request object
  orphans,         \* HTTP calls replaced in Request.request while still in flight
  args,            \* a call of a function taken alone: the function and its arguments
  ret              \* what that call returned or threw

\* The variables of the client and of its Request objects.
clientVars ==
  <<accessToken, queuedRequests, isRunning, attempts, request, abortState, promise,
    preWait, timeoutAbort, headers, infinite, outcomes, created,
    execs, issued, orphans>>

vars == <<clientVars, args, ret>>

\* The current state as one record, so that handlers compose as functions.
\* confirms is the input of a step: the HTTP calls whose abort the transport
\* confirms; aborts collects the calls the step aborts and pass the Request
\* objects on which it calls execute(), in order.
State(confirms) ==
  [confirms |-> confirms, aborts |-> {}, pass |-> <<>>,
   accessToken |-> accessToken, queuedRequests |-> queuedRequests,
   isRunning |-> isRunning, attempts |-> attempts, request |-> request,
   abortState |-> abortState, promise |-> promise, preWait |-> preWait,
   timeoutAbort |-> timeoutAbort, headers |-> headers, infinite |-> infinite,
   outcomes |-> outcomes, created |-> created,
   execs |-> execs, issued |-> issued, orphans |-> orphans]

Cur == State({})

\* The next state is the record s.
Apply(s) ==
  /\ accessToken' = s.accessToken
  /\ queuedRequests' = s.queuedRequests
  /\ isRunning' = s.isRunning
  /\ attempts' = s.attempts
  /\ request' = s.request
  /\ abortState' = s.abortState
  /\ promise' = s.promise
  /\ preWait' = s.preWait
  /\ timeoutAbort' = s.timeoutAbort
  /\ headers' = s.headers
  /\ infinite' = s.infinite
  /\ outcomes' = s.outcomes
  /\ created' = s.created
  /\ execs' = s.execs
  /\ issued' = s.issued
  /\ orphans' = s.orphans

----------------------------------------------------------------------------
(* Errors *)

RequestError(message, httpCode) ==
  [type |-> "RequestError", message |-> message, httpCode |-> httpCode]

AuthenticationError(message) ==
  [type |-> "AuthenticationError", message |-> message, httpCode |-> 401]

\* A plain Error of the transport, or a rejection with a bare string: no httpCode.
TransportError(message) ==
  [type |-> "Error", message |-> message, httpCode |-> 0]

AbortRejection ==
  [type |-> "String", message |-> "Request couldn't be aborted", httpCode |-> 0]

----------------------------------------------------------------------------
(* Values, strings and request options *)

\* Strings whose characters the program looks at (URLs, paths, endpoints) are
\* sequences of one-character strings; Str gives the text of one.
RECURSIVE Str(_)
Str(chars) == IF chars = <<>> THEN "" ELSE Head(chars) \o Str(Tail(chars))

\* JavaScript values given as arguments: undefined, a string, a number.
Undefined == [type |-> "undefined", value |-> <<>>]

String(chars) == [type |-> "string", value |-> chars]

Number(digits) == [type |-> "number", value |-> digits]

\* The value in a boolean context (!value is its negation).
Truthy(value) ==
  CASE value.type = "undefined" -> FALSE
    [] value.type = "string" -> value.value # <<>>
    [] value.type = "number" -> value.value # <<"0">>

\* The value inside a template literal.
Template(value) ==
  IF value.type = "undefined" THEN "undefined" ELSE Str(value.value)

TypeError(message) == [type |-> "TypeError", message |-> message]

\* A constructor that throws: there is no instance.
Throw(error) ==
  [thrown |-> TRUE, error |-> error, path |-> <<>>, accessToken |-> 0,
   queuedRequests |-> <<>>, authenticateRequest |-> "none"]

\* The URLs of the model: the scheme, a host, and what follows the host.
Scheme == <<"h", ":", "/", "/">>

\* new url.URL(input) accepts the input.
IsURL(chars) ==
  /\ Len(chars) > Len(Scheme)
  /\ SubSeq(chars, 1, Len(Scheme)) = Scheme
  /\ chars[Len(Scheme) + 1] # "/"

\* Index of the first '/' of chars, 0 when there is none.
RECURSIVE IndexOfSlash(_, _)
IndexOfSlash(chars, i) ==
  IF i > Len(chars) THEN 0
  ELSE IF chars[i] = "/" THEN i
  ELSE IndexOfSlash(chars, i + 1)

\* serverUrl.pathname: what follows the host, '/' when nothing does.
Pathname(chars) ==
  LET i == IndexOfSlash(chars, Len(Scheme) + 1)
  IN IF i = 0 THEN <<"/">> ELSE SubSeq(chars, i, Len(chars))

\* new RestClient(webServiceUrl, certificate).
RestClient(webServiceUrl) ==
  IF ~Truthy(webServiceUrl) \/ webServiceUrl.type # "string"
    THEN Throw(TypeError("Invalid web service url : " \o Template(webServiceUrl)))
  ELSE IF ~IsURL(webServiceUrl.value)
    THEN Throw(TypeError("Invalid URL"))
  ELSE [thrown |-> FALSE, error |-> TypeError(""), path |-> Pathname(webServiceUrl.value),
        accessToken |-> 0, queuedRequests |-> <<>>, authenticateRequest |-> "none"]

\* new OpenVeoClient(...) that builds the authenticate request without
\* looking at the client secret.
OpenVeoClientAnySecret(webServiceUrl, clientId, clientSecret) ==
  LET client == RestClient(webServiceUrl)
  IN IF client.thrown THEN client
     ELSE IF ~Truthy(clientId) \/ clientId.type # "string"
       THEN Throw(TypeError("Invalid client id : " \o Template(clientId)))
     ELSE [client EXCEPT !.authenticateRequest = "POST /token"]

\* new OpenVeoClient(webServiceUrl, clientId, clientSecret, certificate).
OpenVeoClient(webServiceUrl, clientId, clientSecret) ==
  LET client == RestClient(webServiceUrl)
  IN IF client.thrown THEN client
     ELSE IF ~Truthy(clientId) \/ clientId.type # "string"
       THEN Throw(TypeError("Invalid client id : " \o Template(clientId)))
     ELSE IF ~Truthy(clientSecret) \/ clientSecret.type # "string"
       THEN Throw(TypeError("Invalid client secret : " \o Template(clientSecret)))
     ELSE [client EXCEPT !.authenticateRequest = "POST /token"]

\* replace(/^\/+/, ''): the string without its leading slashes.
RECURSIVE StripLeadingSlashes(_)
StripLeadingSlashes(chars) ==
  IF chars # <<>> /\ Head(chars) = "/" THEN StripLeadingSlashes(Tail(chars)) ELSE chars

\* method.toUpperCase() for the verbs of the client.
ToUpperCase(method) ==
  CASE method = "get" -> "GET"
    [] method = "post" -> "POST"
    [] method = "put" -> "PUT"
    [] method = "patch" -> "PATCH"
    [] method = "delete" -> "DELETE"

\* An object as a function from its property names to their values.
EmptyObject == [name \in {} |-> ""]

\* Object.assign that keeps the properties the target already has.
AssignKeepsTarget(target, source) ==
  [name \in DOMAIN target \cup DOMAIN source |->
     IF name \in DOMAIN target THEN target[name] ELSE source[name]]

\* Object.assign(target, source): the properties of source are written over
\* those of target.
Assign(target, source) ==
  [name \in DOMAIN target \cup DOMAIN source |->
     IF name \in DOMAIN source THEN source[name] ELSE target[name]]

\* delete object[property].
DeleteProperty(object, property) ==
  [name \in DOMAIN object \ {property} |-> object[name]]

\* The options argument of a verb call: undefined, or an object that has the
\* properties named in has.
NoOptions ==
  [defined |-> FALSE, has |-> {}, path |-> <<>>, method |-> "", headers |-> EmptyObject]

Options(has, path, method, callerHeaders) ==
  [defined |-> TRUE, has |-> has, path |-> path, method |-> method,
   headers |-> callerHeaders]

\* The default headers of executeRequest.
DefaultHeaders ==
  [name \in {"Content-Type", "Accept"} |-> "application/json"]

\* The options executeRequest hands to buildRequest, for the client of base
\* path `path`.
ExecuteRequestOptions(path, method, endPoint, options, multiparted) ==
  LET stripped == StripLeadingSlashes(path \o <<"/">> \o endPoint)
      given == IF options.defined THEN options ELSE [NoOptions EXCEPT !.defined = TRUE]
      merged == [path |-> IF "path" \in given.has THEN given.path ELSE <<"/">> \o stripped,
                 method |-> IF "method" \in given.has THEN given.method
                                                      ELSE ToUpperCase(method),
                 headers |-> IF "headers" \in given.has THEN given.headers ELSE EmptyObject]
      all == Assign(DefaultHeaders, merged.headers)
  IN [merged EXCEPT !.headers = IF multiparted THEN DeleteProperty(all, "Content-Type")
                                                ELSE all]

\* The Request object of a verb call of the state machine below, which are all
\* get('i') on a client of base path '/'.
QueuedRequest(r) ==
  [options |-> ExecuteRequestOptions(<<"/">>, "get", <<"i">>, NoOptions, FALSE)]

----------------------------------------------------------------------------
(* Request *)

\* The caller's reject callback attached by buildRequest.
Reject(s, r, error) ==
  [s EXCEPT !.outcomes[r] = Append(@, [kind |-> "reject", value |-> error])]

\* The caller's resolve callback attached by buildRequest.
Resolve(s, r, result) ==
  [s EXCEPT !.outcomes[r] = Append(@, [kind |-> "resolve", value |-> result])]

IsInFlight(s, x) == s.request[x] = "inflight"

\* require(protocol).request(options, ...) inside execute(): a new HTTP call.
IssueCall(s, x) ==
  [s EXCEPT !.isRunning[x] = TRUE,
            !.orphans[x] = IF IsInFlight(s, x) THEN @ + 1 ELSE @,
            !.request[x] = "inflight",
            !.abortState[x] = "no",
            !.timeoutAbort[x] = "idle",
            !.promise[x] = "pending",
            !.issued[x] = @ + 1]

\* The test of Request.abort(): TRUE when it calls this.request.abort().
AbortWaits(s, x) == s.request[x] # "none" /\ s.isRunning[x]

\* The promise of Request.abort() resolves: at once when there is nothing to
\* abort, on the 'abort' event when this is the first abort of the call and
\* the transport confirms it.
AbortResolves(s, x) ==
  AbortWaits(s, x) => (s.abortState[x] = "no" /\ x \in s.confirms)

\* Request.abort() whose 'abort' listener leaves isRunning set.
AbortKeepsRunning(s, x) ==
  IF ~AbortWaits(s, x) \/ s.abortState[x] # "no" THEN s
  ELSE IF x \in s.confirms
    THEN [s EXCEPT !.aborts = @ \cup {x},
                   !.abortState[x] = "emitted",
                   !.request[x] = IF @ = "inflight" THEN "hungup" ELSE @]
    ELSE [s EXCEPT !.aborts = @ \cup {x},
                   !.abortState[x] = "never"]

\* Request.abort(): the call of this.request.abort() and its 'abort' listener.
Abort(s, x) ==
  IF ~AbortWaits(s, x) \/ s.abortState[x] # "no" THEN s
  ELSE IF x \in s.confirms
    THEN [s EXCEPT !.aborts = @ \cup {x},
                   !.abortState[x] = "emitted",
                   !.isRunning[x] = FALSE,
                   !.request[x] = IF @ = "inflight" THEN "hungup" ELSE @]
    ELSE [s EXCEPT !.aborts = @ \cup {x},
                   !.abortState[x] = "never"]

\* Request.execute(headers) that issues the HTTP call without waiting for the
\* 'abort' event of the previous one.
ExecuteWithoutWaiting(s, x, authorization) ==
  LET s1 == [s EXCEPT !.isRunning[x] = TRUE,
                      !.headers[x] = IF authorization = -1 THEN @ ELSE authorization,
                      !.execs[x] = @ + 1,
                      !.pass = Append(@, x)]
  IN IssueCall(Abort(s1, x), x)

\* Request.execute(headers) in which the headers stored on the request take
\* priority over those passed.
ExecuteKeepsStoredHeaders(s, x, authorization) ==
  LET s1 == [s EXCEPT !.isRunning[x] = TRUE,
                      !.headers[x] = IF @ # -1 THEN @ ELSE authorization,
                      !.execs[x] = @ + 1,
                      !.pass = Append(@, x)]
  IN IF AbortResolves(s1, x)
       THEN IssueCall(Abort(s1, x), x)
       ELSE [Abort(s1, x) EXCEPT !.preWait[x] = @ + 1]

\* Request.execute(headers): abort, then issue the HTTP call.
Execute(s, x, authorization) ==
  LET s1 == [s EXCEPT !.isRunning[x] = TRUE,
                      !.headers[x] = IF authorization = -1 THEN @ ELSE authorization,
                      !.execs[x] = @ + 1,
                      !.pass = Append(@, x)]
  IN IF AbortResolves(s1, x)
       THEN IssueCall(Abort(s1, x), x)
       ELSE [Abort(s1, x) EXCEPT !.preWait[x] = @ + 1]

----------------------------------------------------------------------------
(* RestClient *)

\* OpenVeoClient.getAuthenticationHeaders(): `Bearer ${this.accessToken}`.
GetAuthenticationHeaders(s) == s.accessToken


RECURSIVE ExecuteQueuedNewestFirst(_, _)
\* ExecuteQueued that walks the set from the request queued last.
ExecuteQueuedNewestFirst(s, q) ==
  IF q = <<>> THEN s
  ELSE LET r == q[Len(q)]
       IN ExecuteQueuedNewestFirst(
            IF s.isRunning[r] \/ s.isRunning[AUTH] THEN s
            ELSE Execute(s, r, GetAuthenticationHeaders(s)),
            SubSeq(q, 1, Len(q) - 1))

RECURSIVE ExecuteQueuedAll(_, _)
\* ExecuteQueued without the test of request.isRunning.
ExecuteQueuedAll(s, q) ==
  IF q = <<>> THEN s
  ELSE LET r == Head(q)
       IN ExecuteQueuedAll(
            IF s.isRunning[AUTH] THEN s
            ELSE Execute(s, r, GetAuthenticationHeaders(s)),
            Tail(q))

RECURSIVE ExecuteQueued(_, _)
\* this.queuedRequests.forEach(...) after authenticate() has resolved.
ExecuteQueued(s, q) ==
  IF q = <<>> THEN s
  ELSE LET r == Head(q)
       IN ExecuteQueued(
            IF s.isRunning[r] \/ s.isRunning[AUTH] THEN s
            ELSE Execute(s, r, GetAuthenticationHeaders(s)),
            Tail(q))

RECURSIVE RejectEach(_, _, _)
RejectEach(s, q, error) ==
  IF q = <<>> THEN s
  ELSE LET r == Head(q)
       IN RejectEach(Reject(Abort(s, r), r, error), Tail(q), error)

\* rejectAll that rejects only the request queued last.
RejectAllNewest(s, error) ==
  IF s.queuedRequests = <<>> THEN s
  ELSE RejectEach(s, <<s.queuedRequests[Len(s.queuedRequests)]>>, error)

\* rejectAll(requests, error): abort and reject every request of the set.
RejectAll(s, error) == RejectEach(s, s.queuedRequests, error)

\* The catch of authenticate() without this.queuedRequests.clear().
AuthenticateCatchKeepsQueue(s, error) ==
  RejectAll(s, error)

\* The catch of authenticate() in authenticateAndExecute.
AuthenticateCatch(s, error) ==
  [RejectAll(s, error) EXCEPT !.queuedRequests = <<>>]

IsAuthenticated(s) == s.accessToken # 0

\* authenticate() without the test of isAuthenticated().
AuthenticateAlways(s) ==
  Execute(s, AUTH, -1)

\* authenticate(), the part that runs at once: it resolves when a token is held,
\* else it executes the authenticate request.
Authenticate(s) ==
  IF IsAuthenticated(s) THEN s ELSE Execute(s, AUTH, -1)

\* authenticateAndExecute() that dispatches the queue without authenticating first.
AuthenticateAndExecuteUnauthenticated(s) ==
  IF s.isRunning[AUTH] THEN s
  ELSE ExecuteQueued(s, s.queuedRequests)

\* authenticateAndExecute() without the test of authenticateRequest.isRunning.
AuthenticateAndExecuteUnguarded(s) ==
  IF IsAuthenticated(s) THEN ExecuteQueued(s, s.queuedRequests)
  ELSE Execute(s, AUTH, -1)

\* authenticateAndExecute(): authenticate(), then the pass when it has resolved.
AuthenticateAndExecute(s) ==
  IF s.isRunning[AUTH] THEN s
  ELSE LET s1 == Authenticate(s)
       IN IF IsAuthenticated(s) THEN ExecuteQueued(s1, s1.queuedRequests)
          ELSE s1

\* The then of authenticate() rejecting with plain errors instead of AuthenticationError.
AuthenticateThenPlainError(s, result) ==
  IF result.error # "" THEN AuthenticateCatch(s, TransportError(result.error_description))
  ELSE IF result.access_token = 0
    THEN AuthenticateCatch(s, TransportError("Invalid token"))
  ELSE LET s1 == [s EXCEPT !.accessToken = result.access_token]
       IN ExecuteQueued(s1, s1.queuedRequests)

\* The then of authenticate() without the test of result.access_token.
AuthenticateThenIgnoresMissingToken(s, result) ==
  IF result.error # "" THEN AuthenticateCatch(s, AuthenticationError(result.error_description))
  ELSE LET s1 == [s EXCEPT !.accessToken = result.access_token]
       IN ExecuteQueued(s1, s1.queuedRequests)

\* The then of authenticate() storing access_token before it reads the error field.
AuthenticateThenStoresAnyToken(s, result) ==
  LET s1 == [s EXCEPT !.accessToken = result.access_token]
  IN IF result.error # ""
       THEN AuthenticateCatch(s1, AuthenticationError(result.error_description))
     ELSE IF result.access_token = 0
       THEN AuthenticateCatch(s1, AuthenticationError("Invalid token"))
     ELSE ExecuteQueued(s1, s1.queuedRequests)

\* The then of authenticateRequest.execute() in authenticate().
AuthenticateThen(s, result) ==
  IF result.error # "" THEN AuthenticateCatch(s, AuthenticationError(result.error_description))
  ELSE IF result.access_token = 0
    THEN AuthenticateCatch(s, AuthenticationError("Invalid token"))
  ELSE LET s1 == [s EXCEPT !.accessToken = result.access_token]
       IN ExecuteQueued(s1, s1.queuedRequests)

Delete(q, r) == SelectSeq(q, LAMBDA e : e # r)

\* error[name] for the values of the error property of a response body: "E"
\* and "O" are error objects of the web service, the second without message,
\* any other value is a bare string; "" is an undefined property.
ErrorProperty(error, name) ==
  CASE error = "E" -> [message |-> "m", code |-> "1", module |-> "api"][name]
    [] error = "O" -> [message |-> "", code |-> "2", module |-> "api"][name]
    [] OTHER -> ""

\* A property inside a template literal.
TemplateProperty(value) == IF value = "" THEN "undefined" ELSE value

\* getErrorMessage(result, request).
GetErrorMessage(result, req) ==
  IF result.error # "" \/ result.httpCode >= 400
    THEN IF result.httpCode = 403
           THEN "You don't have the authorization to access the endpoint \""
                \o req.options.method \o " " \o Str(req.options.path) \o "\""
         ELSE IF result.httpCode = 401
           THEN "Authentication failed, verify your credentials"
         ELSE IF result.httpCode = 404
           THEN "Resource " \o Str(req.options.path) \o " not found"
         ELSE IF result.error # ""
           THEN "Error: \"" \o ErrorProperty(result.error, "message")
                \o "\" (code=" \o TemplateProperty(ErrorProperty(result.error, "code"))
                \o ", module=" \o TemplateProperty(ErrorProperty(result.error, "module"))
                \o ")"
         ELSE "Unkown error"
    ELSE "null"

IsExpiry(result) ==
  /\ result.error_description # ""
  /\ result.error_description \in {TokenNotFound, TokenExpired}

\* ExecuteThen that keeps the access token when it retries.
ExecuteThenKeepsToken(s, r, result) ==
  IF result.error # "" \/ result.httpCode >= 400
    THEN IF IsExpiry(result)
           THEN IF s.attempts[r] >= MaxAuthenticationAttempts
                  THEN Reject([s EXCEPT !.accessToken = 0, !.queuedRequests = Delete(@, r)], r,
                              RequestError("Max attempts reached", result.httpCode))
                  ELSE AuthenticateAndExecute([s EXCEPT !.attempts[r] = @ + 1])
           ELSE Reject([s EXCEPT !.queuedRequests = Delete(@, r)], r,
                       RequestError(GetErrorMessage(result, QueuedRequest(r)), result.httpCode))
    ELSE Resolve([s EXCEPT !.queuedRequests = Delete(@, r)], r, result)

\* ExecuteThen that reads only the error field as a failure.
ExecuteThenErrorFieldOnly(s, r, result) ==
  IF result.error # ""
    THEN IF IsExpiry(result)
           THEN LET s1 == [s EXCEPT !.accessToken = 0]
                IN IF s1.attempts[r] >= MaxAuthenticationAttempts
                     THEN Reject([s1 EXCEPT !.queuedRequests = Delete(@, r)], r,
                                 RequestError("Max attempts reached", result.httpCode))
                     ELSE AuthenticateAndExecute([s1 EXCEPT !.attempts[r] = @ + 1])
           ELSE Reject([s EXCEPT !.queuedRequests = Delete(@, r)], r,
                       RequestError(GetErrorMessage(result, QueuedRequest(r)), result.httpCode))
    ELSE Resolve([s EXCEPT !.queuedRequests = Delete(@, r)], r, result)

\* ExecuteThen that gives up only above the ceiling.
ExecuteThenAboveCeiling(s, r, result) ==
  IF result.error # "" \/ result.httpCode >= 400
    THEN IF IsExpiry(result)
           THEN LET s1 == [s EXCEPT !.accessToken = 0]
                IN IF s1.attempts[r] > MaxAuthenticationAttempts
                     THEN Reject([s1 EXCEPT !.queuedRequests = Delete(@, r)], r,
                                 RequestError("Max attempts reached", result.httpCode))
                     ELSE AuthenticateAndExecute([s1 EXCEPT !.attempts[r] = @ + 1])
           ELSE Reject([s EXCEPT !.queuedRequests = Delete(@, r)], r,
                       RequestError(GetErrorMessage(result, QueuedRequest(r)), result.httpCode))
    ELSE Resolve([s EXCEPT !.queuedRequests = Delete(@, r)], r, result)

\* ExecuteThen that counts an attempt for every error response.
ExecuteThenCountsErrors(s, r, result) ==
  IF result.error # "" \/ result.httpCode >= 400
    THEN IF IsExpiry(result)
           THEN LET s1 == [s EXCEPT !.accessToken = 0]
                IN IF s1.attempts[r] >= MaxAuthenticationAttempts
                     THEN Reject([s1 EXCEPT !.queuedRequests = Delete(@, r)], r,
                                 RequestError("Max attempts reached", result.httpCode))
                     ELSE AuthenticateAndExecute([s1 EXCEPT !.attempts[r] = @ + 1])
           ELSE Reject([s EXCEPT !.queuedRequests = Delete(@, r), !.attempts[r] = @ + 1], r,
                       RequestError(GetErrorMessage(result, QueuedRequest(r)), result.httpCode))
    ELSE Resolve([s EXCEPT !.queuedRequests = Delete(@, r)], r, result)

\* The then of request.execute(...) in authenticateAndExecute.
ExecuteThen(s, r, result) ==
  IF result.error # "" \/ result.httpCode >= 400
    THEN IF IsExpiry(result)
           THEN LET s1 == [s EXCEPT !.accessToken = 0]
                IN IF s1.attempts[r] >= MaxAuthenticationAttempts
                     THEN Reject([s1 EXCEPT !.queuedRequests = Delete(@, r)], r,
                                 RequestError("Max attempts reached", result.httpCode))
                     ELSE AuthenticateAndExecute([s1 EXCEPT !.attempts[r] = @ + 1])
           ELSE Reject([s EXCEPT !.queuedRequests = Delete(@, r)], r,
                       RequestError(GetErrorMessage(result, QueuedRequest(r)), result.httpCode))
    ELSE Resolve([s EXCEPT !.queuedRequests = Delete(@, r)], r, result)

\* ExecuteCatch that tries the request again instead of rejecting its caller.
ExecuteCatchRetries(s, r, error) ==
  AuthenticateAndExecute(s)

\* ExecuteCatch that fails the whole pending set.
ExecuteCatchFailsAll(s, r, error) ==
  AuthenticateCatch(s, error)

\* ExecuteCatch that rejects the caller and leaves the request queued.
ExecuteCatchKeepsQueued(s, r, error) ==
  Reject(s, r, error)

\* The catch of request.execute(...) in authenticateAndExecute.
ExecuteCatch(s, r, error) ==
  Reject([s EXCEPT !.queuedRequests = Delete(@, r)], r, error)

\* SettleResolve with a result that lacks the HTTP code of the response.
SettleResolveWithoutCode(s, x, result) ==
  IF s.promise[x] # "pending" THEN s
  ELSE LET s1 == [s EXCEPT !.promise[x] = "settled"]
       IN IF x = AUTH THEN AuthenticateThen(s1, result)
          ELSE ExecuteThen(s1, x, [result EXCEPT !.httpCode = 0])

\* The promise of execute() is resolved: its reaction runs if it was pending.
SettleResolve(s, x, result) ==
  IF s.promise[x] # "pending" THEN s
  ELSE LET s1 == [s EXCEPT !.promise[x] = "settled"]
       IN IF x = AUTH THEN AuthenticateThen(s1, result) ELSE ExecuteThen(s1, x, result)

\* A rejection of a promise of execute() reaches the coordinator.
OnRejected(s, x, error) ==
  IF x = AUTH THEN AuthenticateCatch(s, error) ELSE ExecuteCatch(s, x, error)

\* The promise of execute() is rejected: its reaction runs if it was pending.
SettleReject(s, x, error) ==
  IF s.promise[x] # "pending" THEN s
  ELSE OnRejected([s EXCEPT !.promise[x] = "settled"], x, error)

----------------------------------------------------------------------------
(* Operations *)

\* No function is called alone.
NoCall == [fn |-> "none"]

\* A call that has not returned.
NotReturned == [done |-> FALSE]

\* A call that returned (or threw) value.
Returned(value) == [done |-> TRUE, value |-> value]

\* The client and its Request objects after construction.
Constructed ==
  /\ accessToken = 0
  /\ queuedRequests = <<>>
  /\ isRunning = [x \in Objs |-> FALSE]
  /\ attempts = [x \in Objs |-> 0]
  /\ request = [x \in Objs |-> "none"]
  /\ abortState = [x \in Objs |-> "no"]
  /\ promise = [x \in Objs |-> "none"]
  /\ preWait = [x \in Objs |-> 0]
  /\ timeoutAbort = [x \in Objs |-> "idle"]
  /\ headers = [x \in Objs |-> -1]
  /\ infinite = [x \in Objs |-> FALSE]
  /\ outcomes = [x \in Reqs |-> <<>>]
  /\ created = 0
  /\ execs = [x \in Objs |-> 0]
  /\ issued = [x \in Objs |-> 0]
  /\ orphans = [x \in Objs |-> 0]

Init == Constructed /\ args = NoCall /\ ret = NotReturned

\* The HTTP calls a step can be the first to abort: abort() is called on a
\* running request, and by execute() on the authenticate request or on a queued one.
Abortable ==
  {x \in Objs : /\ request[x] # "none"
                /\ abortState[x] = "no"
                /\ isRunning[x] \/ x = AUTH \/ \E i \in DOMAIN queuedRequests : queuedRequests[i] = x}

\* The step whose result is t: the transport confirms only aborts that were made.
Step(t) == t.confirms \subseteq t.aborts /\ Apply(t) /\ UNCHANGED <<args, ret>>

\* RestClient.executeRequest: a verb call builds a request, queues it and
\* calls authenticateAndExecute.
ExecuteRequest(inf, confirms) ==
  /\ created < NumReqs
  /\ LET r == created + 1
         s1 == [State(confirms) EXCEPT !.created = r,
                                       !.infinite[r] = inf,
                                       !.queuedRequests = Append(@, r)]
     IN Step(AuthenticateAndExecute(s1))

\* The HTTP call of x delivers its last event: the flag is cleared.
Ended(x, confirms) ==
  [State(confirms) EXCEPT !.isRunning[x] = FALSE, !.request[x] = "ended"]

\* response.on('end') with a body that parses as JSON (or an empty body).
ResponseEnd(x, result, confirms) ==
  /\ IsInFlight(Cur, x)
  /\ IF x = AUTH THEN result \in AuthResults ELSE result \in Results
  /\ Step(SettleResolve(Ended(x, confirms), x, result))

\* response.on('end') with a body that is not JSON.
ResponseNotJson(x, confirms) ==
  /\ IsInFlight(Cur, x)
  /\ Step(SettleReject(Ended(x, confirms), x,
                       TransportError("Server error, response is not valid JSON")))

\* request.on('error') / response.on('error') of a call in flight.
SocketError(x, confirms) ==
  /\ IsInFlight(Cur, x)
  /\ Step(SettleReject(Ended(x, confirms), x, TransportError("socket error")))

\* The callback of request.setTimeout rejecting without a call of abort().
ExecutionTimeoutWithoutAbort(x, confirms) ==
  /\ IsInFlight(Cur, x)
  /\ timeoutAbort[x] = "idle"
  /\ ~infinite[x]
  /\ Step(SettleReject([State(confirms) EXCEPT !.timeoutAbort[x] = "done"], x,
                       TransportError("Server unavaible")))

\* The execution timeout armed whatever the value of executionTimeout.
ExecutionTimeoutAlways(x, confirms) ==
  /\ IsInFlight(Cur, x)
  /\ timeoutAbort[x] = "idle"
  /\ LET s == State(confirms)
     IN IF AbortResolves(s, x)
          THEN Step(SettleReject([Abort(s, x) EXCEPT !.timeoutAbort[x] = "done"], x,
                                 TransportError("Server unavaible")))
          ELSE Step([Abort(s, x) EXCEPT !.timeoutAbort[x] = "waiting"])

\* The callback of request.setTimeout: abort, then reject.
ExecutionTimeout(x, confirms) ==
  /\ IsInFlight(Cur, x)
  /\ timeoutAbort[x] = "idle"
  /\ ~infinite[x]
  /\ LET s == State(confirms)
     IN IF AbortResolves(s, x)
          THEN Step(SettleReject([Abort(s, x) EXCEPT !.timeoutAbort[x] = "done"], x,
                                 TransportError("Server unavaible")))
          ELSE Step([Abort(s, x) EXCEPT !.timeoutAbort[x] = "waiting"])

\* The abortTimeout timer of the abort() made by the execution timeout.
AbortTimeoutOfTimeout(x, confirms) ==
  /\ timeoutAbort[x] = "waiting"
  /\ Step(SettleReject([State(confirms) EXCEPT !.timeoutAbort[x] = "done"], x,
                       TransportError("Request can't be aborted")))

\* The abortTimeout timer of the abort() made by execute() before it issues.
AbortTimeoutOfExecute(x, confirms) ==
  /\ preWait[x] > 0
  /\ Step(OnRejected([State(confirms) EXCEPT !.preWait[x] = @ - 1], x, AbortRejection))

\* The 'error' event (socket hang up) of a call aborted while in flight.
HangUp(x, confirms) ==
  /\ request[x] = "hungup"
  /\ Step(SettleReject(Ended(x, confirms), x, TransportError("socket hang up")))

Next ==
  \/ \E inf \in BOOLEAN, confirms \in SUBSET Abortable : ExecuteRequest(inf, confirms)
  \/ \E x \in Objs, result \in Results \cup AuthResults, confirms \in SUBSET Abortable :
       ResponseEnd(x, result, confirms)
  \/ \E x \in Objs, confirms \in SUBSET Abortable : ResponseNotJson(x, confirms)
  \/ \E x \in Objs, confirms \in SUBSET Abortable : SocketError(x, confirms)
  \/ \E x \in Objs, confirms \in SUBSET Abortable : ExecutionTimeout(x, confirms)
  \/ \E x \in Objs, confirms \in SUBSET Abortable : AbortTimeoutOfTimeout(x, confirms)
  \/ \E x \in Objs, confirms \in SUBSET Abortable : AbortTimeoutOfExecute(x, confirms)
  \/ \E x \in Objs, confirms \in SUBSET Abortable : HangUp(x, confirms)

Spec == Init /\ [][Next]_vars

\* One turn of the event loop for an event that is due: the HTTP call of x
\* delivers its response, socket error or execution timeout, or an abortTimeout
\* timer of x fires.
EventLoop ==
  \E x \in Objs, confirms \in SUBSET Abortable :
    \/ \E result \in Results \cup AuthResults : ResponseEnd(x, result, confirms)
    \/ ResponseNotJson(x, confirms)
    \/ SocketError(x, confirms)
    \/ ExecutionTimeout(x, confirms)
    \/ AbortTimeoutOfTimeout(x, confirms)
    \/ AbortTimeoutOfExecute(x, confirms)

\* Every HTTP call issued ends in a response, a socket error or a timeout, and
\* the abortTimeout timers fire: the event loop does not stall on a due event.
Fairness == WF_vars(EventLoop)

FairSpec == Spec /\ Fairness

----------------------------------------------------------------------------
(* The constructor, the options of a request and the error message, each
   called alone on arguments drawn from the sets below *)

\* Largest number of leading slashes of an endpoint.
MaxSlashes == 2

RECURSIVE Slashes(_)
Slashes(n) == IF n = 0 THEN <<>> ELSE <<"/">> \o Slashes(n - 1)

\* Web service URLs that parse: host s, then nothing, '/', '/a' or '/a/'.
WebServiceUrls ==
  {Scheme \o <<"s">> \o rest : rest \in {<<>>, <<"/">>, <<"/", "a">>, <<"/", "a", "/">>}}

\* First argument of the constructor.
UrlValues ==
  {Undefined, String(<<>>), Number(<<"0">>), Number(<<"7">>), String(<<"a">>)}
    \cup {String(u) : u \in WebServiceUrls}

\* Client id and client secret given to the constructor.
CredentialValues == {Undefined, String(<<>>), Number(<<"7">>), String(<<"c">>)}

\* Base paths of the clients built from WebServiceUrls.
BasePaths == {Pathname(u) : u \in WebServiceUrls}

EndPoints == {Slashes(n) \o <<"i">> : n \in 0..MaxSlashes}

Methods == {"get", "post"}

\* Headers a caller gives in the options of a verb call.
CallerHeaders ==
  {EmptyObject,
   [name \in {"Content-Type"} |-> "text/xml"],
   [name \in {"content-type"} |-> "text/xml"],
   [name \in {"X-Custom"} |-> "1"],
   [name \in {"Accept", "X-Custom"} |-> "text/xml"]}

\* The options argument of a verb call.
CallerOptions ==
  {NoOptions, Options({}, <<>>, "", EmptyObject),
   Options({"path"}, <<"/", "x">>, "", EmptyObject),
   Options({"method"}, <<>>, "HEAD", EmptyObject)}
    \cup {Options({"headers"}, <<>>, "", h) : h \in CallerHeaders}

\* Response bodies given to getErrorMessage: a code, with or without an
\* error property, and no expiry sentinel.
MessageResults ==
  {Result(error, "", httpCode) :
     error \in {"", "E", "O", "invalid_request"},
     httpCode \in {200, 400, 401, 403, 404, 500}}

\* Requests given to getErrorMessage.
MessageRequests ==
  {[options |-> ExecuteRequestOptions(path, method, <<"i">>, NoOptions, FALSE)] :
     path \in BasePaths, method \in Methods}

Calls ==
  {[fn |-> "OpenVeoClient", webServiceUrl |-> u, clientId |-> i, clientSecret |-> c] :
     u \in UrlValues, i \in CredentialValues, c \in CredentialValues}
  \cup {[fn |-> "executeRequest", path |-> p, method |-> m, endPoint |-> e,
         options |-> o, multiparted |-> b] :
          p \in BasePaths, m \in Methods, e \in EndPoints, o \in CallerOptions,
          b \in BOOLEAN}
  \cup {[fn |-> "getErrorMessage", result |-> res, request |-> req] :
          res \in MessageResults, req \in MessageRequests}

CallInit == Constructed /\ args \in Calls /\ ret = NotReturned

\* new OpenVeoClient(webServiceUrl, clientId, clientSecret).
NewOpenVeoClient ==
  /\ args.fn = "OpenVeoClient"
  /\ ~ret.done
  /\ ret' = Returned(OpenVeoClient(args.webServiceUrl, args.clientId, args.clientSecret))
  /\ UNCHANGED <<clientVars, args>>

\* The part of executeRequest that builds the options of the request.
BuildOptions ==
  /\ args.fn = "executeRequest"
  /\ ~ret.done
  /\ ret' = Returned(ExecuteRequestOptions(args.path, args.method, args.endPoint,
                                           args.options, args.multiparted))
  /\ UNCHANGED <<clientVars, args>>

\* getErrorMessage(result, request).
CallGetErrorMessage ==
  /\ args.fn = "getErrorMessage"
  /\ ~ret.done
  /\ ret' = Returned(GetErrorMessage(args.result, args.request))
  /\ UNCHANGED <<clientVars, args>>

CallNext ==
  \/ NewOpenVeoClient
  \/ BuildOptions
  \/ CallGetErrorMessage

CallSpec == CallInit /\ [][CallNext]_vars

----------------------------------------------------------------------------
(* Properties *)

Range(q) == {q[i] : i \in DOMAIN q}

Last(q) == q[Len(q)]

\* The step settles an authentication as failed: the catch of authenticate() runs.
AuthenticationFails ==
  \/ promise[AUTH] = "pending" /\ promise'[AUTH] = "settled" /\ accessToken' = 0
  \/ preWait'[AUTH] < preWait[AUTH]

\* The step calls execute() on the queued request r.
Dispatches(r) == execs'[r] = execs[r] + 1

\* C1: a queued request is executed only while an access token is held, and the
\* Authorization header it is given is 'Bearer ' followed by that token; no
\* request ever carries 'Bearer null'.
C1_DispatchCarriesHeldToken ==
  [][\A r \in Reqs :
       /\ execs'[r] # execs[r] =>
            /\ Dispatches(r)
            /\ accessToken' \in Tokens
            /\ headers'[r] = accessToken'
       /\ issued'[r] # issued[r] => headers'[r] \in Tokens]_vars

C1_Witness ==
  \E r \in Reqs :
    /\ IsInFlight(Cur, r)
    /\ execs[r] = 1
    /\ accessToken \in Tokens
    /\ headers[r] = accessToken

\* C2: at most one token call is in flight, a token call is issued only when no
\* token is held and none is in flight, and while the authenticate request is
\* running a verb call or an expiry report executes nothing: neither a second
\* token call nor a queued request.
C2_SingleFlightAuthentication ==
  [][/\ orphans'[AUTH] = 0
     /\ issued'[AUTH] # issued[AUTH] =>
          /\ issued'[AUTH] = issued[AUTH] + 1
          /\ ~IsInFlight(Cur, AUTH)
          /\ accessToken' = 0
     /\ execs'[AUTH] # execs[AUTH] => ~isRunning[AUTH] /\ execs'[AUTH] = execs[AUTH] + 1
     /\ (isRunning[AUTH] /\ isRunning'[AUTH]) => execs' = execs]_vars

C2_Witness ==
  /\ IsInFlight(Cur, AUTH)
  /\ issued[AUTH] = 1
  /\ Len(queuedRequests) = 2
  /\ \A r \in Reqs : execs[r] = 0

\* Every request of the set q is rejected once more in the step, with one error.
RejectedTogether(q) ==
  /\ \A r \in Range(q) :
       /\ Len(outcomes'[r]) = Len(outcomes[r]) + 1
       /\ Last(outcomes'[r]).kind = "reject"
  /\ \A r1, r2 \in Range(q) : Last(outcomes'[r1]) = Last(outcomes'[r2])

\* C3: when an authentication fails, every request of the pending set, running or
\* not, is aborted and rejected with the same error, no other request is touched,
\* and the pending set is empty right after.
C3_AuthenticationFailureRejectsAll ==
  [][AuthenticationFails =>
       /\ queuedRequests' = <<>>
       /\ RejectedTogether(queuedRequests)
       /\ \A r \in Range(queuedRequests) : AbortWaits(Cur, r) => abortState'[r] # "no"
       /\ \A r \in Reqs \ Range(queuedRequests) : outcomes'[r] = outcomes[r]]_vars

C3_Witness ==
  /\ queuedRequests = <<>>
  /\ created = 2
  /\ attempts[1] = 1
  /\ outcomes[1] = outcomes[2]
  /\ Len(outcomes[1]) = 1
  /\ outcomes[1][1].kind = "reject"
  /\ outcomes[1][1].value.type = "AuthenticationError"
  /\ request[2] = "inflight"
  /\ abortState[2] = "never"

\* The token call ends with a response that authenticate() reads as a failure.
TokenResponseRefused(result) ==
  /\ promise[AUTH] = "pending"
  /\ \E confirms \in SUBSET Abortable : ResponseEnd(AUTH, result, confirms)
  /\ result.error # "" \/ result.access_token = 0

\* The error of the last rejection of r is an AuthenticationError (httpCode 401).
RejectedWithAuthenticationError(r) ==
  /\ Last(outcomes'[r]).value.type = "AuthenticationError"
  /\ Last(outcomes'[r]).value.httpCode = 401

\* C4 as claimed: however the token call fails, every queued request is rejected
\* with an AuthenticationError, a RequestError whose httpCode is 401.
C4_AnyFailureIsAuthenticationError ==
  [][AuthenticationFails =>
       \A r \in Range(queuedRequests) : RejectedWithAuthenticationError(r)]_vars

\* C4 amended: a token response with an error field or without access_token
\* rejects every queued request with an AuthenticationError (httpCode 401); a
\* transport failure of the token call (socket error, malformed JSON, execution
\* timeout, abort failure) rejects them with that transport error, which is no
\* AuthenticationError and has no httpCode.
C4_RefusedTokenIsAuthenticationError ==
  [][/\ \A result \in AuthResults :
          TokenResponseRefused(result) =>
            \A r \in Range(queuedRequests) : RejectedWithAuthenticationError(r)
     /\ (/\ AuthenticationFails
         /\ ~\E result \in AuthResults, confirms \in SUBSET Abortable :
               ResponseEnd(AUTH, result, confirms)) =>
          \A r \in Range(queuedRequests) :
            /\ Last(outcomes'[r]).value.type \in {"Error", "String"}
            /\ Last(outcomes'[r]).value.httpCode = 0]_vars

C4_Witness ==
  /\ queuedRequests = <<>>
  /\ \A r \in Reqs :
       outcomes[r] = <<[kind |-> "reject", value |-> AuthenticationError("Invalid token")]>>

\* The pending request r receives the response result and its reaction runs.
Receives(r, result) ==
  /\ promise[r] = "pending"
  /\ request[r] = "inflight"
  /\ \E confirms \in SUBSET Abortable : ResponseEnd(r, result, confirms)

\* The response is an error response whose description is an expiry sentinel.
ReportsExpiry(result) ==
  /\ result.error # "" \/ result.httpCode >= 400
  /\ result.error_description \in {TokenNotFound, TokenExpired}

\* The pending request r had its token refused below the ceiling and has not
\* been executed again yet.
WaitingRetry(r) ==
  /\ r \in Range(queuedRequests)
  /\ attempts[r] >= 1
  /\ execs[r] = attempts[r]

\* C5 as claimed: a pending request whose token was refused below the ceiling is
\* re-sent: it does not leave the pending set before it is executed again.
C5_RetryAlwaysResent ==
  [][\A r \in Reqs : WaitingRetry(r) => r \in Range(queuedRequests')]_vars

\* C5 amended: an error response with an expiry sentinel, below the ceiling,
\* clears the token, increments the attempt count and leaves the request pending
\* with an authentication under way; the request is executed again only in the
\* turn of a token response, with the token of that response; a later response
\* without error resolves the caller with it; and no request waits for its retry
\* for ever: it is executed again or, when that authentication fails, rejected
\* with the queue.
C5_RetryAfterExpiry ==
  /\ [][\A r \in Reqs :
         /\ \A result \in Results :
              (/\ r \in Range(queuedRequests)
               /\ ReportsExpiry(result)
               /\ attempts[r] < MaxAuthenticationAttempts
               /\ Receives(r, result)) =>
                /\ accessToken' = 0
                /\ attempts'[r] = attempts[r] + 1
                /\ isRunning'[AUTH]
                /\ r \in Range(queuedRequests')
                /\ outcomes'[r] = outcomes[r]
         /\ (WaitingRetry(r) /\ Dispatches(r)) =>
              \E result \in AuthResults :
                /\ Receives(AUTH, result)
                /\ result.access_token \in Tokens
                /\ headers'[r] = result.access_token
         /\ \A result \in Results :
              (/\ r \in Range(queuedRequests)
               /\ attempts[r] >= 1
               /\ result.error = ""
               /\ result.httpCode < 400
               /\ Receives(r, result)) =>
                outcomes'[r] = <<[kind |-> "resolve", value |-> result]>>]_vars
  /\ []<>(\A r \in Reqs : ~WaitingRetry(r))

C5_Witness ==
  \E r \in Reqs :
    /\ attempts[r] = 1
    /\ execs[r] = 2
    /\ issued[r] = 2
    /\ outcomes[r] = <<[kind |-> "resolve", value |-> Result("", "", 200)]>>

\* C6: an error response with an expiry sentinel for a request whose attempt
\* count has reached the ceiling clears the token, removes the request from the
\* pending set and rejects its caller with 'Max attempts reached' and the HTTP
\* status of the response, without executing it; and a request that has left the
\* pending set never re-enters it and is never executed or sent again.
C6_MaxAttemptsReached ==
  [][\A r \in Reqs :
       /\ \A result \in Results :
            (/\ ReportsExpiry(result)
             /\ attempts[r] >= MaxAuthenticationAttempts
             /\ Receives(r, result)) =>
              /\ accessToken' = 0
              /\ r \notin Range(queuedRequests')
              /\ outcomes'[r] =
                   Append(outcomes[r],
                          [kind |-> "reject",
                           value |-> RequestError("Max attempts reached", result.httpCode)])
              /\ attempts'[r] = attempts[r]
              /\ execs'[r] = execs[r]
       /\ (r <= created /\ r \notin Range(queuedRequests)) =>
            /\ r \notin Range(queuedRequests')
            /\ execs'[r] = execs[r]
            /\ issued'[r] = issued[r]]_vars

C6_Witness ==
  \E r \in Reqs :
    /\ attempts[r] = MaxAuthenticationAttempts
    /\ execs[r] = MaxAuthenticationAttempts + 1
    /\ accessToken = 0
    /\ r \notin Range(queuedRequests)
    /\ outcomes[r] = <<[kind |-> "reject", value |-> RequestError("Max attempts reached", 401)]>>

\* C7 as claimed: the resolve and reject callbacks of a request are invoked at
\* most once in all.
C7_TerminalOutcomeOnce ==
  \A r \in Reqs : Len(outcomes[r]) <= 1

\* A reaction of an execute() of r has still to run: the promise of its HTTP call
\* is pending, or the abort made by its execute() is awaited.
Armed(r) == promise[r] = "pending" \/ preWait[r] > 0

\* C7 amended: a step invokes at most one callback of a request and no request
\* gets more than two invocations; the reaction of its own execute() that
\* delivers an outcome leaves no reaction armed; a second invocation comes only
\* from a reaction still armed on a request that the failure of an
\* authentication had rejected and removed from the pending set.
C7_SecondOutcomeOnlyAfterRejectAll ==
  [][\A r \in Reqs :
       outcomes'[r] # outcomes[r] =>
         /\ Len(outcomes'[r]) = Len(outcomes[r]) + 1
         /\ SubSeq(outcomes'[r], 1, Len(outcomes[r])) = outcomes[r]
         /\ Len(outcomes'[r]) <= 2
         /\ ~AuthenticationFails => (promise'[r] # "pending" /\ preWait'[r] = 0)
         /\ outcomes[r] # <<>> =>
              /\ ~AuthenticationFails
              /\ Armed(r)
              /\ r \notin Range(queuedRequests)
              /\ outcomes[r][1].kind = "reject"]_vars

C7_Witness ==
  \E r \in Reqs :
    /\ Len(outcomes[r]) = 2
    /\ outcomes[r][1] = [kind |-> "reject", value |-> AuthenticationError("bad client")]
    /\ outcomes[r][2] = [kind |-> "reject", value |-> TransportError("socket hang up")]

\* C8 as claimed: every verb call eventually gets a terminal outcome.
C8_EveryCallSettles ==
  \A r \in Reqs : (r <= created) ~> (outcomes[r] # <<>>)

\* C9: the pending set holds exactly the requests that were queued by a verb
\* call and whose caller has received no outcome yet, each of them once.
C9_PendingSet ==
  /\ \A r \in Reqs :
       r \in Range(queuedRequests) <=> (r <= created /\ outcomes[r] = <<>>)
  /\ Cardinality(Range(queuedRequests)) = Len(queuedRequests)

C9_Witness ==
  /\ created = NumReqs
  /\ outcomes[1] # <<>>
  /\ queuedRequests = <<2>>
  /\ IsInFlight(Cur, 2)

\* C10: a pass executes a request only when its flag isRunning is clear, an HTTP
\* call is issued for a request only when none of its calls is in flight, and
\* no call of a request is ever left in flight behind a newer one.
C10_NeverDoubleSent ==
  [][\A r \in Reqs :
       /\ execs'[r] # execs[r] => (Dispatches(r) /\ ~isRunning[r])
       /\ issued'[r] # issued[r] =>
            (issued'[r] = issued[r] + 1 /\ ~IsInFlight(Cur, r))
       /\ orphans'[r] = 0]_vars

C10_Witness ==
  /\ IsInFlight(Cur, 1)
  /\ IsInFlight(Cur, 2)
  /\ execs[1] = 1
  /\ issued[1] = 1
  /\ execs[2] = 1
  /\ accessToken \in Tokens

\* The errors with which execute() rejects when its HTTP call fails.
TransportErrors ==
  { TransportError("socket error"),
    TransportError("Server error, response is not valid JSON"),
    TransportError("Server unavaible"),
    TransportError("Request can't be aborted") }

\* The HTTP call of the pending request r fails in this step and its execute()
\* rejects with error.
TransportFailure(r, error) ==
  /\ r \in Range(queuedRequests)
  /\ promise[r] = "pending"
  /\ \E confirms \in SUBSET Abortable :
       \/ /\ error = TransportError("socket error")
          /\ SocketError(r, confirms)
       \/ /\ error = TransportError("Server error, response is not valid JSON")
          /\ ResponseNotJson(r, confirms)
       \/ /\ error = TransportError("Server unavaible")
          /\ AbortResolves(State(confirms), r)
          /\ ExecutionTimeout(r, confirms)
       \/ /\ error = TransportError("Request can't be aborted")
          /\ AbortTimeoutOfTimeout(r, confirms)

\* C11: when the HTTP call of a pending request fails (socket error, response
\* that is not JSON, execution timeout), the request leaves the pending set, its
\* caller is rejected with that very error and the request is not executed; a
\* request rejected with such an error is never executed again.
C11_TransportFailureRejectsVerbatim ==
  [][\A r \in Reqs :
       /\ \A error \in TransportErrors :
            TransportFailure(r, error) =>
              /\ r \notin Range(queuedRequests')
              /\ outcomes'[r] = Append(outcomes[r], [kind |-> "reject", value |-> error])
              /\ execs'[r] = execs[r]
              /\ issued'[r] = issued[r]
       /\ (/\ outcomes[r] # <<>>
           /\ outcomes[r][1].kind = "reject"
           /\ outcomes[r][1].value \in TransportErrors) =>
              /\ r \notin Range(queuedRequests')
              /\ execs'[r] = execs[r]
              /\ issued'[r] = issued[r]]_vars

C11_Witness ==
  \E r \in Reqs :
    /\ outcomes[r] = <<[kind |-> "reject", value |-> TransportError("socket error")]>>
    /\ r \notin Range(queuedRequests)
    /\ execs[r] = 1
    /\ request[r] = "ended"

\* The response is an error response that reports no token expiry.
ReportsOtherError(result) ==
  /\ result.error # "" \/ result.httpCode >= 400
  /\ result.error_description \notin {TokenNotFound, TokenExpired}

\* C12: a response with an error field or an HTTP code of 400 or more, and no
\* expiry sentinel, is never resolved: the request leaves the pending set and its
\* caller is rejected with a RequestError that carries the HTTP code of the
\* response, also when the response has no error field.
C12_ErrorResponseRejected ==
  [][\A r \in Reqs : \A result \in Results :
       (/\ r \in Range(queuedRequests)
        /\ ReportsOtherError(result)
        /\ Receives(r, result)) =>
          /\ r \notin Range(queuedRequests')
          /\ Len(outcomes'[r]) = Len(outcomes[r]) + 1
          /\ Last(outcomes'[r]).kind = "reject"
          /\ Last(outcomes'[r]).value.type = "RequestError"
          /\ Last(outcomes'[r]).value.httpCode = result.httpCode]_vars

C12_Witness ==
  \E r \in Reqs :
    /\ outcomes[r] = <<[kind |-> "reject", value |-> RequestError("Unkown error", 500)]>>
    /\ r \notin Range(queuedRequests)

\* C13: a failure of a pending request that is no token expiry (failure of its
\* HTTP call, or error response without sentinel) removes that request only: the
\* token, the authenticate request and every other request (membership and order
\* in the pending set, flag, attempts, executions, outcomes) are left as they were.
C13_FailureIsLocal ==
  [][\A r \in Reqs :
       (\/ \E error \in TransportErrors : TransportFailure(r, error)
        \/ \E result \in Results :
             /\ r \in Range(queuedRequests)
             /\ ReportsOtherError(result)
             /\ Receives(r, result)) =>
          /\ accessToken' = accessToken
          /\ execs'[AUTH] = execs[AUTH]
          /\ issued'[AUTH] = issued[AUTH]
          /\ isRunning'[AUTH] = isRunning[AUTH]
          /\ queuedRequests' = Delete(queuedRequests, r)
          /\ \A q \in Reqs \ {r} :
               /\ isRunning'[q] = isRunning[q]
               /\ attempts'[q] = attempts[q]
               /\ execs'[q] = execs[q]
               /\ request'[q] = request[q]
               /\ outcomes'[q] = outcomes[q]]_vars

C13_Witness ==
  /\ outcomes[1] = <<[kind |-> "reject", value |-> RequestError("Error: \"m\" (code=1, module=api)", 200)]>>
  /\ queuedRequests = <<2>>
  /\ IsInFlight(Cur, 2)
  /\ attempts[2] = 1
  /\ accessToken \in Tokens

\* C14: a response without error field and with an HTTP code below 400 removes
\* the request from the pending set and resolves its caller with the parsed body,
\* every field of it, and the HTTP code of the response; an empty body gives the
\* object that holds the code alone.
C14_SuccessResolvesWithResult ==
  [][\A r \in Reqs : \A result \in Results :
       (/\ r \in Range(queuedRequests)
        /\ result.error = ""
        /\ result.httpCode < 400
        /\ Receives(r, result)) =>
          /\ r \notin Range(queuedRequests')
          /\ Len(outcomes'[r]) = Len(outcomes[r]) + 1
          /\ Last(outcomes'[r]).kind = "resolve"
          /\ Last(outcomes'[r]).value.httpCode = result.httpCode
          /\ Last(outcomes'[r]).value.error = result.error
          /\ Last(outcomes'[r]).value.error_description = result.error_description]_vars

C14_Witness ==
  /\ queuedRequests = <<>>
  /\ outcomes[1] = <<[kind |-> "resolve", value |-> Result("", "", 200)]>>
  /\ outcomes[2] = <<[kind |-> "resolve", value |-> Result("", TokenExpired, 200)]>>

\* C15: the access token is absent at first; it is set only by a token response
\* without error field and with an access_token, to that access_token, and only
\* while absent; it is cleared only by an error response with an expiry sentinel
\* to a request; every such response sets or clears it; nothing else changes it.
C15_TokenWriters ==
  /\ accessToken = 0
  /\ [][/\ accessToken' # accessToken =>
            \/ /\ accessToken = 0
               /\ \E result \in AuthResults :
                    /\ result.error = ""
                    /\ result.access_token \in Tokens
                    /\ accessToken' = result.access_token
                    /\ Receives(AUTH, result)
            \/ /\ accessToken' = 0
               /\ \E r \in Reqs, result \in Results :
                    ReportsExpiry(result) /\ Receives(r, result)
        /\ \A result \in AuthResults :
             (result.error = "" /\ result.access_token \in Tokens /\ Receives(AUTH, result)) =>
               accessToken' = result.access_token
        /\ \A r \in Reqs, result \in Results :
             (ReportsExpiry(result) /\ Receives(r, result)) => accessToken' = 0]_vars

C15_Witness ==
  /\ accessToken = 2
  /\ issued[AUTH] = 2
  /\ promise[AUTH] = "settled"
  /\ \E r \in Reqs : attempts[r] = 1 /\ headers[r] = 2 /\ IsInFlight(Cur, r)

\* C16: authenticate() with a token held changes nothing; a verb call made while
\* a token is held leaves the token and the authenticate request as they were
\* and adds only its own request to the pending set; the authenticate request
\* is executed, and a token call issued, only when no token is held.
C16_AuthenticateWithTokenIsNoOp ==
  /\ [](IsAuthenticated(Cur) => Authenticate(Cur) = Cur)
  /\ [][/\ (execs'[AUTH] # execs[AUTH] \/ issued'[AUTH] # issued[AUTH]) => accessToken' = 0
        /\ (created' # created /\ accessToken # 0) =>
             /\ accessToken' = accessToken
             /\ execs'[AUTH] = execs[AUTH]
             /\ issued'[AUTH] = issued[AUTH]
             /\ isRunning'[AUTH] = isRunning[AUTH]
             /\ request'[AUTH] = request[AUTH]
             /\ abortState'[AUTH] = abortState[AUTH]
             /\ promise'[AUTH] = promise[AUTH]
             /\ queuedRequests' = Append(queuedRequests, created')
             /\ \A r \in Reqs : isRunning[r] => isRunning'[r]]_vars

C16_Witness ==
  /\ created = 2
  /\ issued[AUTH] = 1
  /\ execs[AUTH] = 1
  /\ accessToken = 1
  /\ outcomes[1] = <<[kind |-> "resolve", value |-> Result("", "", 200)]>>
  /\ queuedRequests = <<2>>
  /\ IsInFlight(Cur, 2)
  /\ headers[2] = 1

\* Every request of the pending set is rejected in the step with error, and the
\* set is emptied.
AllRejectedWith(error) ==
  /\ queuedRequests' = <<>>
  /\ \A r \in Range(queuedRequests) :
       outcomes'[r] = Append(outcomes[r], [kind |-> "reject", value |-> error])

\* C17: a token response with an error field fails the authentication with an
\* AuthenticationError whose message is its error_description; one without error
\* field and without access_token fails it with AuthenticationError 'Invalid
\* token'; in both cases the token stays absent; any other token response
\* stores its access_token, rejects nobody and lets the pass run.
C17_TokenResponseClassified ==
  [][\A result \in AuthResults :
       Receives(AUTH, result) =>
         /\ accessToken = 0
         /\ IF result.error # ""
              THEN /\ accessToken' = 0
                   /\ AllRejectedWith(AuthenticationError(result.error_description))
            ELSE IF result.access_token = 0
              THEN /\ accessToken' = 0
                   /\ AllRejectedWith(AuthenticationError("Invalid token"))
            ELSE /\ accessToken' = result.access_token
                 /\ queuedRequests' = queuedRequests
                 /\ outcomes' = outcomes
                 /\ \A r \in Range(queuedRequests) :
                      ~isRunning[r] => (Dispatches(r) /\ headers'[r] = result.access_token)]_vars

C17_Witness ==
  /\ created = 1
  /\ accessToken = 0
  /\ queuedRequests = <<>>
  /\ request[AUTH] = "ended"
  /\ outcomes[1] = <<[kind |-> "reject", value |-> AuthenticationError("bad client")]>>

\* The requests on which a step with result t has called execute(), in order.
PassOrder(t) == SelectSeq(t.pass, LAMBDA x : x # AUTH)

\* The requests of the sequence q that are not running, in the order of q.
NotRunning(q) == SelectSeq(q, LAMBDA r : ~isRunning[r])

\* C18: the pending set is kept in the order of the verb calls, a request that
\* waits for its retry included; the pass run by a successful token response,
\* and the pass run by a verb call made while a token is held, call execute() on
\* the requests that are not running, in that order.
C18_PassInInsertionOrder ==
  /\ \A i, j \in DOMAIN queuedRequests : i < j => queuedRequests[i] < queuedRequests[j]
  /\ \A result \in AuthResults :
       (/\ IsInFlight(Cur, AUTH)
        /\ promise[AUTH] = "pending"
        /\ result.error = ""
        /\ result.access_token \in Tokens) =>
          PassOrder(SettleResolve(Ended(AUTH, {}), AUTH, result)) = NotRunning(queuedRequests)
  /\ (created < NumReqs /\ IsAuthenticated(Cur) /\ ~isRunning[AUTH]) =>
       LET s1 == [Cur EXCEPT !.queuedRequests = Append(@, created + 1)]
       IN PassOrder(AuthenticateAndExecute(s1)) = NotRunning(s1.queuedRequests)

C18_Witness ==
  /\ queuedRequests = <<1, 2>>
  /\ attempts[1] = 1
  /\ execs[1] = 1
  /\ execs[2] = 0
  /\ ~isRunning[1]
  /\ IsInFlight(Cur, AUTH)
  /\ issued[AUTH] = 2

\* C19: abort() on a request whose flag isRunning is clear, or that never issued
\* a call, resolves at once and changes nothing; the first abort() of a running
\* call cancels it and, when the transport confirms, clears the flag and
\* resolves; when it does not, the flag stays set, abort() does not resolve and
\* the only way out of the wait is the abortTimeout timer, which rejects.
C19_AbortContract ==
  /\ [](\A x \in Objs : \A confirms \in SUBSET {x} :
          LET s == State(confirms)
              t == Abort(s, x)
          IN /\ ~AbortWaits(s, x) => (AbortResolves(s, x) /\ t = s)
             /\ (AbortWaits(s, x) /\ abortState[x] = "no") =>
                  /\ x \in t.aborts
                  /\ x \in confirms =>
                       (AbortResolves(s, x) /\ ~t.isRunning[x] /\ ~IsInFlight(t, x))
                  /\ x \notin confirms =>
                       (~AbortResolves(s, x) /\ t.isRunning[x] /\ t.request[x] = request[x]))
  /\ [][\A x \in Objs :
          /\ \A confirms \in SUBSET Abortable :
               ExecutionTimeout(x, confirms) =>
                 IF x \in confirms
                   THEN ~isRunning'[x] /\ abortState'[x] = "emitted" /\ timeoutAbort'[x] = "done"
                   ELSE isRunning'[x] /\ abortState'[x] = "never" /\ timeoutAbort'[x] = "waiting"
          /\ (timeoutAbort[x] = "waiting" /\ timeoutAbort'[x] = "done") =>
               \E confirms \in SUBSET Abortable : AbortTimeoutOfTimeout(x, confirms)
          /\ preWait'[x] < preWait[x] =>
               \E confirms \in SUBSET Abortable : AbortTimeoutOfExecute(x, confirms)]_vars

C19_Witness ==
  /\ abortState[1] = "emitted"
  /\ ~isRunning[1]
  /\ request[1] = "hungup"
  /\ abortState[2] = "never"
  /\ isRunning[2]
  /\ timeoutAbort[2] = "waiting"

\* C20: the execution timeout of a pending request aborts its call; when the
\* abort is confirmed the request leaves the pending set and its caller is
\* rejected with 'Server unavaible' in the same turn; when it is not, the request
\* stays pending until the abortTimeout timer rejects the execute() still in
\* progress with "Request can't be aborted", which removes the request and rejects
\* its caller with that error; a request without time limit has no such timeout.
C20_ExecutionTimeout ==
  [][\A r \in Reqs :
       (r \in Range(queuedRequests) /\ promise[r] = "pending") =>
         \A confirms \in SUBSET Abortable :
           /\ ExecutionTimeout(r, confirms) =>
                /\ ~infinite[r]
                /\ abortState'[r] # "no"
                /\ IF AbortResolves(State(confirms), r)
                     THEN /\ r \notin Range(queuedRequests')
                          /\ ~isRunning'[r]
                          /\ outcomes'[r] =
                               Append(outcomes[r],
                                      [kind |-> "reject",
                                       value |-> TransportError("Server unavaible")])
                     ELSE /\ r \in Range(queuedRequests')
                          /\ outcomes'[r] = outcomes[r]
                          /\ timeoutAbort'[r] = "waiting"
           /\ AbortTimeoutOfTimeout(r, confirms) =>
                /\ r \notin Range(queuedRequests')
                /\ outcomes'[r] =
                     Append(outcomes[r],
                            [kind |-> "reject",
                             value |-> TransportError("Request can't be aborted")])]_vars

C20_Witness ==
  /\ outcomes[1] = <<[kind |-> "reject", value |-> TransportError("Server unavaible")]>>
  /\ outcomes[2] = <<[kind |-> "reject", value |-> TransportError("Request can't be aborted")]>>
  /\ timeoutAbort[1] = "done"
  /\ timeoutAbort[2] = "done"

\* The errors of the execution timeout (Request.js 188-196).
TimeoutErrors ==
  {TransportError("Server unavaible"), TransportError("Request can't be aborted")}

\* C21: a request whose executionTimeout is Infinity never gets a timeout
\* event: its timeout callback never runs, its caller is rejected with a
\* timeout error only by a failing authentication (whose own request timed
\* out), and while its call is in flight it stays running in the pending set
\* until the step of its response or socket error or of an authentication
\* failure.
C21_InfiniteNeverTimesOut ==
  [][\A r \in Reqs :
       infinite[r] =>
         /\ timeoutAbort'[r] = "idle"
         /\ \A i \in DOMAIN outcomes'[r] \ DOMAIN outcomes[r] :
              (/\ outcomes'[r][i].kind = "reject"
               /\ outcomes'[r][i].value \in TimeoutErrors) => AuthenticationFails
         /\ (/\ r \in Range(queuedRequests)
             /\ IsInFlight(Cur, r)
             /\ ~(/\ r \in Range(queuedRequests')
                  /\ isRunning'[r]
                  /\ request'[r] = "inflight"))
              => request'[r] = "ended" \/ AuthenticationFails]_vars

\* A request without time limit is still in flight when one with a time limit,
\* sent before it, has been rejected by its timeout.
C21_Witness ==
  /\ infinite[2] /\ ~infinite[1]
  /\ outcomes[1] = <<[kind |-> "reject", value |-> TransportError("Server unavaible")]>>
  /\ 2 \in Range(queuedRequests)
  /\ request[2] = "inflight"
  /\ isRunning[2]
  /\ outcomes[2] = <<>>

\* The argument is missing, empty or not a string.
Invalid(value) == value.type # "string" \/ value.value = <<>>

\* C22: a constructor call whose service URL, client id or client secret is
\* missing, empty or not a string throws a TypeError: there is no instance, so
\* no authenticate request has been built and nothing is queued.
C22_ConstructorValidates ==
  (/\ args.fn = "OpenVeoClient"
   /\ ret.done
   /\ \/ Invalid(args.webServiceUrl)
      \/ Invalid(args.clientId)
      \/ Invalid(args.clientSecret)) =>
     /\ ret.value.thrown
     /\ ret.value.error.type = "TypeError"
     /\ ret.value.authenticateRequest = "none"
     /\ ret.value.queuedRequests = <<>>

\* A valid URL and client id with an empty client secret: the last test throws.
C22_Witness ==
  /\ args.fn = "OpenVeoClient"
  /\ ret.done
  /\ ~Invalid(args.webServiceUrl) /\ IsURL(args.webServiceUrl.value)
  /\ ~Invalid(args.clientId)
  /\ args.clientSecret.type = "string" /\ args.clientSecret.value = <<>>
  /\ ret.value.thrown
  /\ ret.value.error = TypeError("Invalid client secret : ")

\* C23: the path of the request built by a verb call (whose options give no
\* path of their own) is the base path joined to the endpoint without its leading
\* slashes, under a single leading '/': 'i', '/i' and '//i' give the same path.
C23_EndpointSlashesStripped ==
  (/\ args.fn = "executeRequest"
   /\ ret.done
   /\ "path" \notin args.options.has) =>
     ret.value.path =
       <<"/">> \o StripLeadingSlashes(args.path \o <<"/">>
                                      \o StripLeadingSlashes(args.endPoint))

\* The headers the caller of the verb gave in its options.
GivenHeaders ==
  IF args.options.defined /\ "headers" \in args.options.has
    THEN args.options.headers
    ELSE EmptyObject

\* C24: the headers of a built request are the caller's headers, each with the
\* caller's value, and the defaults 'Content-Type' and 'Accept' with the value
\* 'application/json' where the caller gave no header of that name; for a
\* multipart call there is no 'Content-Type' header, given or default.
C24_HeadersMerged ==
  (args.fn = "executeRequest" /\ ret.done) =>
    LET built == ret.value.headers
    IN /\ DOMAIN built =
            ({"Content-Type", "Accept"} \cup DOMAIN GivenHeaders)
              \ (IF args.multiparted THEN {"Content-Type"} ELSE {})
       /\ \A name \in DOMAIN built :
            built[name] = IF name \in DOMAIN GivenHeaders THEN GivenHeaders[name]
                                                          ELSE "application/json"

\* A multipart call whose caller replaces Accept and adds a header of its own.
C24_Witness ==
  /\ args.fn = "executeRequest"
  /\ ret.done
  /\ args.multiparted
  /\ DOMAIN GivenHeaders = {"Accept", "X-Custom"}
  /\ DOMAIN ret.value.headers = {"Accept", "X-Custom"}
  /\ ret.value.headers["Accept"] = "text/xml"

\* The error of a response body is structured: it has a message, a code or a
\* module.
Structured(error) ==
  \E name \in {"message", "code", "module"} : ErrorProperty(error, name) # ""

\* C25: the message for an error response without expiry sentinel is, by
\* priority: for 403 the authorization message naming method and path of the
\* request; for 401 'Authentication failed, verify your credentials'; for 404
\* the not-found message naming the path; otherwise, for a structured error,
\* the message formatted from its message, code and module; otherwise the
\* unknown-error message.
C25_MessagePriority ==
  (/\ args.fn = "getErrorMessage"
   /\ ret.done
   /\ args.result.error # "" \/ args.result.httpCode >= 400) =>
     LET error == args.result.error
         method == args.request.options.method
         path == Str(args.request.options.path)
     IN ret.value =
          IF args.result.httpCode = 403
            THEN "You don't have the authorization to access the endpoint \""
                 \o method \o " " \o path \o "\""
          ELSE IF args.result.httpCode = 401
            THEN "Authentication failed, verify your credentials"
          ELSE IF args.result.httpCode = 404
            THEN "Resource " \o path \o " not found"
          ELSE IF Structured(error)
            THEN "Error: \"" \o ErrorProperty(error, "message") \o "\" (code="
                 \o ErrorProperty(error, "code") \o ", module="
                 \o ErrorProperty(error, "module") \o ")"
          ELSE "Unkown error"

\* C26: the attempt count of a request is 0 until its first execution, never
\* decreases, grows by one and only in the step of a response of the request
\* that reports an expiry, and never exceeds maxAuthenticationAttempts; execute()
\* is called on the request, and an HTTP call issued for it, at most once more
\* than it has attempts, so at most maxAuthenticationAttempts + 1 times.
C26_AttemptsBounded ==
  /\ [](\A r \in Reqs : execs[r] = 0 => attempts[r] = 0)
  /\ [][\A r \in Reqs :
          /\ attempts'[r] >= attempts[r]
          /\ attempts'[r] <= MaxAuthenticationAttempts
          /\ attempts'[r] # attempts[r] =>
               /\ attempts'[r] = attempts[r] + 1
               /\ \E result \in Results : ReportsExpiry(result) /\ Receives(r, result)
          /\ execs'[r] <= attempts'[r] + 1
          /\ issued'[r] <= execs'[r]
          /\ issued'[r] <= MaxAuthenticationAttempts + 1]_vars

\* A request at the ceiling whose second HTTP call is in flight.
C26_Witness ==
  \E r \in Reqs :
    /\ attempts[r] = MaxAuthenticationAttempts
    /\ issued[r] = MaxAuthenticationAttempts + 1
    /\ request[r] = "inflight"
    /\ r \in Range(queuedRequests)

\* The HTTP call of the authenticate request delivers a body with a token and
\* no error field.
TokenArrives ==
  /\ request[AUTH] = "inflight"
  /\ \E result \in AuthResults :
       /\ result.error = ""
       /\ result.access_token # 0
       /\ \E confirms \in SUBSET Abortable : ResponseEnd(AUTH, result, confirms)

\* C27: no pending request is dispatched while the authenticate request is
\* running: a step that dispatches a request leaves the authenticate request
\* idle, a step through which the authenticate request stays running executes
\* nothing, and the step in which the token call completes with a token
\* dispatches every pending request that is not running, so those passed over
\* while the authentication was running.
C27_NoDispatchWhileAuthenticating ==
  [][/\ \A r \in Reqs : Dispatches(r) => ~isRunning'[AUTH]
     /\ (isRunning[AUTH] /\ isRunning'[AUTH]) => \A r \in Reqs : ~Dispatches(r)
     /\ TokenArrives =>
          \A r \in Range(queuedRequests) : ~isRunning[r] => Dispatches(r)]_vars

\* The states in which authenticateAndExecute() is invoked: the current one,
\* and the one in which a verb call has just queued its request.
Invocations(confirms) ==
  {State(confirms)}
    \cup (IF created < NumReqs
            THEN {[State(confirms) EXCEPT !.created = created + 1,
                                          !.queuedRequests = Append(@, created + 1)]}
            ELSE {})

\* C28: authenticateAndExecute() invoked while the authenticate request is
\* running changes nothing, and invoked twice in succession it leaves the state
\* one invocation leaves; an invocation calls execute() at most once on each
\* pending request and on the authenticate request.
C28_IdempotentUnderReentry ==
  \A confirms \in SUBSET Abortable :
    \A s \in Invocations(confirms) :
      LET once == AuthenticateAndExecute(s)
          twice == AuthenticateAndExecute(once)
      IN /\ s.isRunning[AUTH] => once = s
         /\ twice = once
         /\ \A x \in Objs : once.execs[x] <= s.execs[x] + 1

\* A verb call made while a token is held: the first invocation dispatches the
\* new request, the second finds it running.
C28_Witness ==
  /\ created < NumReqs
  /\ accessToken # 0
  /\ ~isRunning[AUTH]
  /\ \E s \in Invocations({}) :
       /\ s.created = created + 1
       /\ AuthenticateAndExecute(s).execs[s.created] = 1
       /\ AuthenticateAndExecute(s).isRunning[s.created]
       /\ AuthenticateAndExecute(AuthenticateAndExecute(s)) = AuthenticateAndExecute(s)

\* C29: an Authorization header passed to execute() replaces the one stored on
\* the request, and execute() without one keeps it; so a request executed again
\* carries the token held at that moment, whatever the header of its previous
\* attempt, and the HTTP call then issued is sent with a token.
C29_PassedHeadersTakePriority ==
  /\ [](\A x \in Objs : \A confirms \in SUBSET {x} :
          /\ \A token \in Tokens :
               Execute(State(confirms), x, token).headers[x] = token
          /\ Execute(State(confirms), x, -1).headers[x] = headers[x])
  /\ [][\A r \in Reqs :
          (Dispatches(r) /\ headers[r] # -1) =>
             /\ accessToken' \in Tokens
             /\ headers'[r] = accessToken'
             /\ issued'[r] \in {issued[r], issued[r] + 1}]_vars

\* The second request was sent with the first token beside the first request,
\* which has had no response yet; its token was refused, and it has been
\* executed again with the second token.
C29_Witness ==
  /\ execs[1] = 1 /\ attempts[1] = 0 /\ request[1] = "inflight" /\ headers[1] = 1
  /\ execs[2] = 2 /\ attempts[2] = 1 /\ request[2] = "inflight" /\ headers[2] = 2
  /\ accessToken = 2

\* C30: execute() on a Request object that has an HTTP call aborts that call
\* (unless it was aborted before) and issues the new call only when that abort
\* is confirmed, in the same step and never over a call still in flight;
\* otherwise it issues nothing and waits, and the wait ends only by the failure
\* of execute(), which issues no call and rejects the caller of a pending
\* request with "Request couldn't be aborted".
C30_AbortBeforeRestart ==
  /\ [](\A x \in Objs : \A confirms \in SUBSET {x} :
          LET s == State(confirms)
              t == Execute(s, x, -1)
          IN IF request[x] = "none"
               THEN t.issued[x] = issued[x] + 1 /\ t.aborts = {}
               ELSE /\ x \in t.aborts \/ abortState[x] # "no"
                    /\ IF abortState[x] = "no" /\ x \in confirms
                         THEN /\ t.issued[x] = issued[x] + 1
                              /\ t.request[x] = "inflight"
                              /\ t.orphans[x] = orphans[x]
                              /\ t.preWait[x] = preWait[x]
                         ELSE /\ t.issued[x] = issued[x]
                              /\ t.request[x] = request[x]
                              /\ t.abortState[x] # "no"
                              /\ t.preWait[x] = preWait[x] + 1)
  /\ [][\A x \in Objs :
          /\ issued'[x] # issued[x] =>
               /\ execs'[x] = execs[x] + 1
               /\ issued'[x] = issued[x] + 1
               /\ orphans'[x] = orphans[x]
               /\ request[x] = "none" \/ abortState[x] = "no"
          /\ preWait'[x] > preWait[x] => issued'[x] = issued[x]
          /\ preWait'[x] < preWait[x] =>
               /\ issued'[x] = issued[x]
               /\ (x \in Reqs /\ x \in Range(queuedRequests)) =>
                    /\ x \notin Range(queuedRequests')
                    /\ outcomes'[x] =
                         Append(outcomes[x], [kind |-> "reject", value |-> AbortRejection])]_vars

\* A request executed again after a refused token: the abort of its first call,
\* which had ended, was not confirmed, and execute() has failed without a
\* second call.
C30_Witness ==
  \E r \in Reqs :
    /\ execs[r] = 2
    /\ issued[r] = 1
    /\ abortState[r] = "never"
    /\ preWait[r] = 0
    /\ outcomes[r] = <<[kind |-> "reject", value |-> AbortRejection]>>

\* C31: the access token is cleared only by an expiry report about the token
\* held: an expiry response to a pending request that was sent with another
\* token than the one now held leaves the held token in place and starts no
\* token call.
C31_StaleExpiryKeepsToken ==
  [][\A r \in Reqs : \A result \in Results :
       (/\ r \in Range(queuedRequests)
        /\ accessToken \in Tokens
        /\ headers[r] # accessToken
        /\ ReportsExpiry(result)
        /\ Receives(r, result)) =>
          /\ accessToken' = accessToken
          /\ execs'[AUTH] = execs[AUTH]]_vars

\* An execution of the authenticate request is in progress: its HTTP call is in
\* flight with its promise pending, or execute() awaits the abort of the
\* previous call.
TokenCallInProgress ==
  \/ request[AUTH] = "inflight" /\ promise[AUTH] = "pending"
  \/ preWait[AUTH] > 0

\* C32: once an execution of the authenticate request has settled, by a token,
\* an error response, a socket error, a body that is not JSON, the execution
\* timeout or a failed abort, the running flag of the authenticate request is
\* false: the flag is never set while no execution of the token call is in
\* progress.
C32_FlagClearedWhenSettled ==
  isRunning[AUTH] => TokenCallInProgress

\* C33: no pending request is left without a driver: whenever the pending set
\* holds a request that is not running, an execution of the token call is in
\* progress, whose settlement dispatches or rejects the pending set (between
\* two steps no dispatch pass is waiting to run).
C33_PendingRequestHasDriver ==
  (\E r \in Range(queuedRequests) : ~isRunning[r]) => TokenCallInProgress

\* The HTTP call of r delivers a response or fails, in flight or hung up.
CallEnds(r) ==
  /\ request[r] \in {"inflight", "hungup"}
  /\ request'[r] = "ended"

\* C34: a request that has had its outcome and left the pending set has no
\* further effect: when its HTTP call ends afterwards, the access token, the
\* attempt counts, the pending set and the executions of every Request object,
\* the authenticate request included, are left as they were.
C34_SettledRequestHasNoEffect ==
  [][\A r \in Reqs :
       (/\ r \notin Range(queuedRequests)
        /\ outcomes[r] # <<>>
        /\ CallEnds(r)) =>
          /\ accessToken' = accessToken
          /\ attempts' = attempts
          /\ queuedRequests' = queuedRequests
          /\ execs' = execs]_vars

\* C35: the options of the request built by a verb call carry the uppercased
\* verb as method and the path made of the base path and the endpoint
\* argument, whatever the options argument of the caller holds.
C35_CallerOptionsKeepMethodAndPath ==
  (args.fn = "executeRequest" /\ ret.done) =>
    /\ ret.value.method = ToUpperCase(args.method)
    /\ ret.value.path =
         <<"/">> \o StripLeadingSlashes(args.path \o <<"/">> \o args.endPoint)

====
